---- MODULE Spec2Model ----
(***************************************************************************)
(* Variant-image resolution, URL normalisation and price normalisation of  *)
(* the Shopify scraping scripts:                                           *)
(*   src/sitemap_crawler.js   crawlCollection (product JSON extraction)    *)
(*   src/unnamed/part_000     processVariantImages                         *)
(*   src/unnamed/part_002     crawlShopifyProducts, getHighResImage,       *)
(*                            normalizePrice                               *)
(*                                                                         *)
(* Strings are sequences of atoms.  An atom stands for a run of characters *)
(* that no pattern of the code can match only a part of: "http", "s",      *)
(* "://", "/", "_", ".", a host name, a size word, a file-name word.       *)
(* startsWith, includes and the regular expressions of the code are then   *)
(* prefix, infix and first-match operations on these sequences.            *)
(*                                                                         *)
(* Prices are fixed-point numbers: the val of a price is the amount in     *)
(* hundredths, so that the JSON number 12999 is Num(1299900) and the       *)
(* quotient 12999 / 100 = 129.99 is Num(12999).                            *)
(***************************************************************************)
EXTENDS Integers, Sequences, FiniteSets, TLC

VARIABLES
    script,       \* which program runs: "sitemap_crawler", "process_variants", "crawl_products"
    pc,           \* position of the program in its extraction code
    productJson,  \* the product JSON found on the page (the input)
    page,         \* what else the page holds: [jsonScript, thumbs]
    images,       \* the product's image list as built so far
    variants,     \* the variant list as built so far
    price,        \* the product-level price as extracted
    productData,  \* what the extraction returned: "none", "ok" or "error"
    imageUrl,     \* argument and result of successive helper calls on one URL
    prevUrl,      \* the URL before the last helper call
    applied,      \* number of helper calls made on imageUrl
    priceArg,     \* argument of normalizePrice
    priceRes      \* result of normalizePrice

\* The extraction and the helpers.
resolverVars == <<script, pc, productJson, page, images, variants, price, productData,
                  imageUrl, prevUrl, applied, priceArg, priceRes>>

VARIABLES
    step,                    \* position of crawlShopifyProducts in its run
    saveInterval,            \* argv['save-interval']
    previousRun,             \* the products argv.output holds when the run starts
    outputFile,              \* content of argv.output
    result,                  \* result: [collections, products]
    crawledProducts,         \* keys of the crawledProducts Map
    collectionLinks,         \* the collections to crawl
    colIndex,                \* index (from 1) of the collection being processed
    uniqueProductLinks,      \* product links of the collection page being processed
    prodIndex,               \* index (from 1) of the link being processed
    collectionProductCount,  \* products added from the current collection
    deferred,                \* collections logged as skipped for now
    attempted                \* collections logged as being crawled

\* The run of crawlShopifyProducts.
crawlVars == <<step, saveInterval, previousRun, outputFile, result, crawledProducts,
               collectionLinks, colIndex, uniqueProductLinks, prodIndex,
               collectionProductCount, deferred, attempted>>

VARIABLES
    pagesStep,         \* position of crawlCollection in its loop over pages
    maxPagesArg,       \* argv['max-pages']
    pageNumbersText,   \* numeric texts of the pagination element, Null without one
    nextPages,         \* number of pages the link rel="next" chain of the store has
    totalPages,        \* totalPages
    maxPages,          \* maxPages
    currentPage,       \* currentPage, of the rel="next" probe and of the loop over pages
    processedPages,    \* the pages whose product links have been collected, in order
    probeCalls,        \* number of calls of safeNavigate the rel="next" probe has made
    probeEnd           \* how the loop of the probe ended

\* The loop over the pages of a collection.
pagesVars == <<pagesStep, maxPagesArg, pageNumbersText, nextPages, totalPages, maxPages,
               currentPage, processedPages, probeCalls, probeEnd>>

VARIABLES
    apiStep,           \* position of getProductsByCollection / getAllProducts
    limit,             \* the limit argument (argv.limit)
    storeProducts,     \* number of products the connection of the store holds
    allProducts,       \* allProducts, as the positions of the products in the connection
    hasNextPage,       \* hasNextPage
    cursor,            \* after: the position of the last product fetched, 0 for null
    first              \* the `first` variable of the last request

\* The paginated product queries of the API crawler.
apiVars == <<apiStep, limit, storeProducts, allProducts, hasNextPage, cursor, first>>

VARIABLES
    rangeStep,         \* position of processProductData
    rawData,           \* rawData.products
    priceRanges,       \* priceRanges of generatePriceRangeData: handles per range
    statsRanges        \* stats.priceStats.ranges of generateStats: count per range

\* The data processor.
rangeVars == <<rangeStep, rawData, priceRanges, statsRanges>>

VARIABLES
    navStep,           \* position of safeNavigate: in its loop, returned or thrown
    argvRetries,       \* argv.retries
    navUrl,            \* the url argument
    attempt,           \* attempt
    lastError,         \* lastError: the message of the error last caught
    gotoCalls,         \* number of calls of page.goto
    failures,          \* number of calls of page.goto that threw
    response,          \* the response safeNavigate returned
    thrown             \* the error safeNavigate threw: [name, message]

\* A call of safeNavigate.
navVars == <<navStep, argvRetries, navUrl, attempt, lastError, gotoCalls, failures,
            response, thrown>>

VARIABLES
    collStep,          \* position of getCollections
    shopCollections,   \* number of collections of the shop
    emptyEvery,        \* every emptyEvery-th collection has no product (0: none)
    allCollections,    \* allCollections, as the positions of the collections in the shop
    collHasNextPage,   \* hasNextPage of getCollections
    collCursor,        \* cursor of getCollections: position of the last collection, 0 for null
    collRequests,      \* number of queries executed
    nonEmptyCollections \* nonEmptyCollections, Null before the filter has run

\* The paginated collections query of the API crawler.
collVars == <<collStep, shopCollections, emptyEvery, allCollections, collHasNextPage,
              collCursor, collRequests, nonEmptyCollections>>

vars == <<resolverVars, crawlVars, pagesVars, apiVars, rangeVars, navVars, collVars>>

\* What the extraction and the helpers leave alone.
resolverFrame == <<crawlVars, pagesVars, apiVars, rangeVars, navVars, collVars>>

\* What the run of crawlShopifyProducts leaves alone.
crawlFrame == <<resolverVars, pagesVars, apiVars, rangeVars, navVars, collVars>>

\* What the loop over pages leaves alone.
pagesFrame == <<resolverVars, crawlVars, apiVars, rangeVars, navVars, collVars>>

\* What the product queries leave alone.
apiFrame == <<resolverVars, crawlVars, pagesVars, rangeVars, navVars, collVars>>

\* What the data processor leaves alone.
rangeFrame == <<resolverVars, crawlVars, pagesVars, apiVars, navVars, collVars>>

\* What safeNavigate leaves alone.
navFrame == <<resolverVars, crawlVars, pagesVars, apiVars, rangeVars, collVars>>

\* What getCollections leaves alone.
collFrame == <<resolverVars, crawlVars, pagesVars, apiVars, rangeVars, navVars>>

---------------------------------------------------------------------------
(* JavaScript values *)

Undefined == [tag |-> "undefined"]

Null == [tag |-> "null"]

Str(s) == [tag |-> "string", val |-> s]

Num(n) == [tag |-> "number", val |-> n]

IsStr(v) == v.tag = "string"

IsNum(v) == v.tag = "number"

\* ToBoolean: undefined, null, "" and 0 are falsy.
Truthy(v) ==
    CASE v.tag = "string" -> v.val # <<>>
      [] v.tag = "number" -> v.val # 0
      [] OTHER -> FALSE

\* a || b
Or(a, b) == IF Truthy(a) THEN a ELSE b

\* Number.prototype.toString / String.prototype.toString of a variant ID:
\* the number 9 and the string "9" both give "9".
JsToString(id) == IF IsNum(id) THEN <<ToString(id.val)>> ELSE id.val

---------------------------------------------------------------------------
(* Strings *)

StartsWith(s, p) == Len(s) >= Len(p) /\ SubSeq(s, 1, Len(p)) = p

Includes(s, p) ==
    \E i \in 1..(Len(s) - Len(p) + 1) : SubSeq(s, i, i + Len(p) - 1) = p

\* The alternation of the size regular expression.
SizeTokens ==
    {"pico", "icon", "thumb", "small", "compact", "medium", "large", "grande", "original"}

HighResToken == "2048x2048"

\* Positions where /_(pico|...|original)_/ matches.
SizeMatches(s) ==
    {i \in 1..(Len(s) - 2) : s[i] = "_" /\ s[i + 1] \in SizeTokens /\ s[i + 2] = "_"}

Least(S) == CHOOSE i \in S : \A j \in S : i <= j

\* s.replace(/_(pico|...|original)_/, '_2048x2048_'): no g flag, so the first
\* match only is replaced.
ReplaceSize(s) ==
    IF SizeMatches(s) = {} THEN s
    ELSE LET i == Least(SizeMatches(s))
         IN  SubSeq(s, 1, i - 1) \o <<"_", HighResToken, "_">> \o SubSeq(s, i + 3, Len(s))

\* window.location.origin of the product page.
Origin == <<"http", "s", "://", "shop.example">>

CdnHost == <<"cdn.shopify.com">>

HasScheme(u) ==
    StartsWith(u, <<"http", "://">>) \/ StartsWith(u, <<"http", "s", "://">>)

\* new URL(u, window.location.origin).href
ResolveUrl(u) ==
    IF HasScheme(u) THEN u
    ELSE IF StartsWith(u, <<"/", "/">>) THEN <<"http", "s", "://">> \o SubSeq(u, 3, Len(u))
    ELSE IF StartsWith(u, <<"/">>) THEN Origin \o u
    ELSE Origin \o <<"/">> \o u

\* "Make relative URLs absolute": if (!u.startsWith('http')) u = new URL(u, origin).href
MakeAbsolute(u) == IF ~StartsWith(u, <<"http">>) THEN ResolveUrl(u) ELSE u

\* The rewrite without the test on cdn.shopify.com.
HighResAnyHost(u) == ReplaceSize(u)

\* "For Shopify CDN images": if (u.includes('cdn.shopify.com')) u = u.replace(...)
HighRes(u) == IF Includes(u, CdnHost) THEN ReplaceSize(u) ELSE u

\* The two steps the scripts apply to every image URL they take from the JSON.
NormalizeUrl(u) == HighRes(MakeAbsolute(u))

---------------------------------------------------------------------------
(* Records of the product JSON *)

Arr(s) == [tag |-> "array", val |-> s]

IsArray(v) == v.tag = "array"

IsObject(v) == v.tag = "object"

\* An entry of productJson.images that is an object.
Image(src, variant_ids) == [tag |-> "object", src |-> src, variant_ids |-> variant_ids]

\* The featured_image of a variant.
Featured(src) == [tag |-> "object", src |-> src]

\* An entry of productJson.variants.
Variant(id, featured_image, p) ==
    [tag |-> "object", id |-> id, featured_image |-> featured_image, price |-> p]

\* variant.featured_image && variant.featured_image.src
HasFeaturedSrc(variant) ==
    IsObject(variant.featured_image) /\ Truthy(variant.featured_image.src)

\* img.variant_ids && Array.isArray(img.variant_ids)
HasVariantIds(img) == IsObject(img) /\ IsArray(img.variant_ids)

\* A variant as the scripts emit it.
Resolved(id, p, image) == [id |-> id, price |-> p, image |-> image]

---------------------------------------------------------------------------
(* Prices *)

CentsThreshold == 10000

\* x > 10000 on a value that may be undefined: the comparison is then false.
\* (val is in hundredths, hence the factor.)
ExceedsThreshold(x) == IsNum(x) /\ x.val > CentsThreshold * 100

\* x / 100
Div100(x) == Num(x.val \div 100)

\* if (x > 10000) x = x / 100
CentsToUnits(x) == IF ExceedsThreshold(x) THEN Div100(x) ELSE x

\* The product-level price of the extraction.
ProductPrice(pj) ==
    IF pj.price_min # Undefined THEN Div100(pj.price_min)
    ELSE IF pj.price # Undefined THEN CentsToUnits(pj.price)
    ELSE Undefined

\* function normalizePrice(price)
normalizePrice(p) ==
    IF ~Truthy(p) THEN Null
    ELSE IF p.val > CentsThreshold * 100 THEN Div100(p) ELSE p

---------------------------------------------------------------------------
(* crawlCollection: extraction from the product JSON *)

\* The URL of one entry of productJson.images, Null for an entry without src.
ImageEntryUrl(img) ==
    IF IsStr(img) THEN Str(NormalizeUrl(img.val))
    ELSE IF Truthy(img.src) THEN Str(NormalizeUrl(img.src.val))
    ELSE Null

RECURSIVE FilterBoolean(_)
\* .filter(Boolean) followed by taking the strings' values
FilterBoolean(s) ==
    IF s = <<>> THEN <<>>
    ELSE IF Truthy(Head(s)) THEN <<Head(s).val>> \o FilterBoolean(Tail(s))
    ELSE FilterBoolean(Tail(s))

\* images = productJson.images.map(...).filter(Boolean), or [] when not an array
ImageList(pj) ==
    IF IsArray(pj.images)
    THEN FilterBoolean([i \in 1..Len(pj.images.val) |-> ImageEntryUrl(pj.images.val[i])])
    ELSE <<>>

\* The keys img.variant_ids.forEach(variantId => variantId.toString()) writes.
IdKeys(ids) == {JsToString(ids[j]) : j \in 1..Len(ids)}

\* map.set(key, url) for every key of keys
SetAll(map, keys, url) ==
    [k \in (DOMAIN map) \cup keys |-> IF k \in keys THEN url ELSE map[k]]

EmptyMap == [k \in {} |-> Undefined]

RECURSIVE MapImages(_, _)
\* productJson.images.forEach(img => ...) building variantImageMap
MapImages(imgs, map) ==
    IF imgs = <<>> THEN map
    ELSE LET img == Head(imgs)
         IN  MapImages(Tail(imgs),
                 IF HasVariantIds(img)
                 THEN SetAll(map, IdKeys(img.variant_ids.val), Str(NormalizeUrl(img.src.val)))
                 ELSE map)

\* fullImageUrl.startsWith on an img.src that is no string raises a TypeError.
MapImagesThrows(imgs) ==
    \E i \in 1..Len(imgs) : HasVariantIds(imgs[i]) /\ ~IsStr(imgs[i].src)

VariantImageMap(pj) ==
    IF IsArray(pj.images) THEN MapImages(pj.images.val, EmptyMap) ELSE EmptyMap

\* variant.id.toString() on a variant without id raises a TypeError.
IdLookupThrows(variant) == ~HasFeaturedSrc(variant) /\ ~(IsStr(variant.id) \/ IsNum(variant.id))

\* Methods 1 to 3 of the variants map.
VariantImage(variant, map, imgs) ==
    IF HasFeaturedSrc(variant) THEN Str(NormalizeUrl(variant.featured_image.src.val))
    ELSE IF JsToString(variant.id) \in DOMAIN map THEN map[JsToString(variant.id)]
    ELSE IF Len(imgs) > 0 THEN Str(imgs[1])
    ELSE Null

\* The object the variants map returns for one variant.
ResolveVariant(variant, map, imgs, p) ==
    Resolved(variant.id, Or(CentsToUnits(variant.price), p), VariantImage(variant, map, imgs))

RECURSIVE WithImage(_)
\* The variants that have an image, as a filter on the resolved list would keep.
WithImage(vs) ==
    IF vs = <<>> THEN <<>>
    ELSE IF Truthy(Head(vs).image) THEN <<Head(vs)>> \o WithImage(Tail(vs))
    ELSE WithImage(Tail(vs))

\* The variants map followed by a filter that drops the variants without image.
VariantListWithImage(pj) ==
    IF IsArray(pj.variants)
    THEN WithImage([i \in 1..Len(pj.variants.val) |->
            ResolveVariant(pj.variants.val[i], VariantImageMap(pj), ImageList(pj), ProductPrice(pj))])
    ELSE <<>>

\* variants = productJson.variants.map(...), or [] when not an array
VariantList(pj) ==
    IF IsArray(pj.variants)
    THEN [i \in 1..Len(pj.variants.val) |->
            ResolveVariant(pj.variants.val[i], VariantImageMap(pj), ImageList(pj), ProductPrice(pj))]
    ELSE <<>>

\* The extraction raises (and the catch returns {error}) when a TypeError occurs.
ExtractThrows(pj) ==
    IsArray(pj.variants)
    /\ \/ IsArray(pj.images) /\ MapImagesThrows(pj.images.val)
       \/ \E i \in 1..Len(pj.variants.val) : IdLookupThrows(pj.variants.val[i])

---------------------------------------------------------------------------
(* crawlShopifyProducts: the steps that follow the extraction *)

\* A thumbnail element of the page: its data-variant-id and its image URL.
Thumb(variantId, src) == [variantId |-> variantId, src |-> src]

RECURSIVE MapImagesById(_, _)
\* productData.images.forEach(image => image.variant_ids.forEach(...)): the
\* URL is computed once per variant ID, so an empty variant_ids reads no src.
MapImagesById(imgs, map) ==
    IF imgs = <<>> THEN map
    ELSE LET image == Head(imgs)
         IN  MapImagesById(Tail(imgs),
                 IF HasVariantIds(image) /\ Len(image.variant_ids.val) > 0
                 THEN SetAll(map, IdKeys(image.variant_ids.val), Str(NormalizeUrl(image.src.val)))
                 ELSE map)

\* imageUrl.startsWith on a missing src raises; the enclosing try ignores it.
MapImagesByIdThrows(imgs) ==
    \E i \in 1..Len(imgs) :
        HasVariantIds(imgs[i]) /\ Len(imgs[i].variant_ids.val) > 0 /\ ~IsStr(imgs[i].src)

\* variant.id && map.has(variant.id.toString())
IdInMap(variant, map) == Truthy(variant.id) /\ JsToString(variant.id) \in DOMAIN map

\* "Apply these images to variants"
ApplyIdMap(vs, map) ==
    IF DOMAIN map = {} THEN vs
    ELSE [i \in 1..Len(vs) |->
            IF IdInMap(vs[i], map) THEN [vs[i] EXCEPT !.image = map[JsToString(vs[i].id)]]
            ELSE vs[i]]

\* The whole try block on the page's product JSON script.
OverrideFromJsonScript(pj, pg, vs) ==
    IF pg.jsonScript /\ IsArray(pj.images) /\ IsArray(pj.variants)
       /\ ~MapImagesByIdThrows(pj.images.val)
    THEN ApplyIdMap(vs, MapImagesById(pj.images.val, EmptyMap))
    ELSE vs

RECURSIVE MapThumbs(_, _)
\* variantImageSelectors.forEach(selector => ...): variantIdToImageMap
MapThumbs(thumbs, map) ==
    IF thumbs = <<>> THEN map
    ELSE LET t == Head(thumbs)
         IN  MapThumbs(Tail(thumbs),
                 IF Truthy(t.src) /\ Truthy(t.variantId)
                 THEN SetAll(map, {t.variantId.val}, Str(NormalizeUrl(t.src.val)))
                 ELSE map)

NoImagePath == <<"/", "no-image-available">>

\* variant.image && !variant.image.includes('/no-image-available')
HasOwnImage(v) == Truthy(v.image) /\ ~Includes(v.image.val, NoImagePath)

\* "Apply the mapped images to variants": the variants of the model carry no
\* sku, option or title, so only the match by variant ID can apply.
ApplyThumbs(pg, vs) ==
    IF Len(pg.thumbs) > 0
    THEN LET map == MapThumbs(pg.thumbs, EmptyMap)
         IN  [i \in 1..Len(vs) |->
                IF HasOwnImage(vs[i]) THEN vs[i]
                ELSE IF IdInMap(vs[i], map) THEN [vs[i] EXCEPT !.image = map[JsToString(vs[i].id)]]
                ELSE vs[i]]
    ELSE vs

\* allVariantsHaveSameImage
AllSameImage(vs) == \A i \in 2..Len(vs) : vs[i].image = vs[1].image

\* "Assign different product images to variants based on index"
Redistribute(imgs, vs) ==
    IF Len(imgs) > 1 /\ Len(vs) > 1 /\ AllSameImage(vs)
    THEN [i \in 1..Len(vs) |-> [vs[i] EXCEPT !.image = Str(imgs[((i - 1) % Len(imgs)) + 1])]]
    ELSE vs

---------------------------------------------------------------------------
(* processVariantImages *)

RECURSIVE MapImagesRaw(_, _)
\* First pass: variantImageMap.set(variantId.toString(), img.src)
MapImagesRaw(imgs, map) ==
    IF imgs = <<>> THEN map
    ELSE LET img == Head(imgs)
         IN  MapImagesRaw(Tail(imgs),
                 IF HasVariantIds(img)
                 THEN SetAll(map, IdKeys(img.variant_ids.val), img.src)
                 ELSE map)

\* productJson.images[0].src: a string entry has no src property.
FirstImageSrc(imgs) == IF IsObject(imgs[1]) THEN imgs[1].src ELSE Undefined

\* Second pass, one variant; a variant no branch applies to keeps its image
\* property, which the input does not carry.
ProcessVariant(variant, map, imgs) ==
    Resolved(variant.id, variant.price,
        IF HasFeaturedSrc(variant) THEN variant.featured_image.src
        ELSE IF JsToString(variant.id) \in DOMAIN map THEN map[JsToString(variant.id)]
        ELSE IF Len(imgs) > 0 THEN FirstImageSrc(imgs)
        ELSE Undefined)

processVariantImages(pj) ==
    [i \in 1..Len(pj.variants.val) |->
        ProcessVariant(pj.variants.val[i], MapImagesRaw(pj.images.val, EmptyMap), pj.images.val)]

\* variant.image = image: the assignment adds the property to the input record.
SetImage(variant, image) ==
    [f \in (DOMAIN variant) \cup {"image"} |-> IF f = "image" THEN image ELSE variant[f]]

\* Second pass, one variant, as the assignment in place that it is.
AssignImage(variant, map, imgs) ==
    IF HasFeaturedSrc(variant) \/ JsToString(variant.id) \in DOMAIN map \/ Len(imgs) > 0
    THEN SetImage(variant, ProcessVariant(variant, map, imgs).image)
    ELSE variant

\* The variants forEach reaches before variant.id.toString() raises, if it does.
Reached(vs) == {i \in 1..Len(vs) : \A j \in 1..i : ~IdLookupThrows(vs[j])}

\* productJson after processShopifyProductJson: processVariantImages works on
\* the parsed object itself and returns it.
AssignImages(pj) ==
    IF IsArray(pj.variants) /\ IsArray(pj.images)
    THEN [pj EXCEPT !.variants = Arr([i \in 1..Len(pj.variants.val) |->
            IF i \in Reached(pj.variants.val)
            THEN AssignImage(pj.variants.val[i], MapImagesRaw(pj.images.val, EmptyMap), pj.images.val)
            ELSE pj.variants.val[i]])]
    ELSE pj

\* productJson.variants.length and productJson.images.length are read for the
\* log before the call, and variant.id.toString() inside it.
ProcessThrows(pj) ==
    \/ ~IsArray(pj.variants)
    \/ ~IsArray(pj.images)
    \/ \E i \in 1..Len(pj.variants.val) : IdLookupThrows(pj.variants.val[i])

\* function getHighResImage(imageUrl)
getHighResImage(u) == IF ~Truthy(u) THEN Null ELSE Str(HighRes(u.val))

---------------------------------------------------------------------------
(* Inputs *)

MaxImages == 2

MaxVariants == 2

MaxCalls == 3

MaxNameLen == 5

SeqsUpTo(S, n) == UNION {[1..k -> S] : k \in 0..n}

\* "/a_small_.jpg"
RelativeSrc == <<"/", "a", "_", "small", "_", ".", "jpg">>

\* "httpdocs/c.jpg": a relative path whose first segment begins with "http"
HttpDirSrc == <<"http", "docs", "/", "c", ".", "jpg">>

\* "//cdn.shopify.com/f_small_.jpg"
CdnFeaturedSrc == <<"/", "/", "cdn.shopify.com", "/", "f", "_", "small", "_", ".", "jpg">>

\* "https://cdn.shopify.com/t_thumb_.jpg"
CdnThumbSrc ==
    <<"http", "s", "://", "cdn.shopify.com", "/", "t", "_", "thumb", "_", ".", "jpg">>

Id9 == Str(<<"9">>)

Id10 == Str(<<"10">>)

ImageSrcs == {Undefined, Str(RelativeSrc), Str(HttpDirSrc)}

VariantIdLists == {Undefined, Arr(<<Id9>>)}

RawImages == {Image(src, ids) : src \in ImageSrcs, ids \in VariantIdLists}

VariantIds == {Undefined, Id9, Num(9), Id10}

FeaturedImages == {Undefined, Featured(Str(CdnFeaturedSrc))}

\* 45, as a price in hundredths
PlainPrice == Num(45 * 100)

RawVariants == {Variant(id, f, PlainPrice) : id \in VariantIds, f \in FeaturedImages}

Product(imgs, vs, pmin, p) ==
    [images |-> imgs, variants |-> vs, price_min |-> pmin, price |-> p]

\* Products that exercise the image resolution.
ImageProducts ==
    {Product(imgs, vs, Undefined, PlainPrice) :
        imgs \in {Undefined} \cup {Arr(s) : s \in SeqsUpTo(RawImages, MaxImages)},
        vs \in {Undefined} \cup {Arr(s) : s \in SeqsUpTo(RawVariants, MaxVariants)}}

\* 0, 45, 4500, 10000, 10001 and 12999 as JSON numbers
PriceInputs == {Undefined} \cup {Num(p * 100) : p \in {0, 45, 4500, 10000, 10001, 12999}}

PricedVariants == {Variant(Id9, Undefined, p) : p \in PriceInputs}

\* Products that exercise the price rules.
PriceProducts ==
    {Product(Arr(<<>>), Arr(vs), pmin, p) :
        vs \in SeqsUpTo(PricedVariants, MaxVariants),
        pmin \in PriceInputs, p \in PriceInputs}

NoPage == [jsonScript |-> FALSE, thumbs |-> <<>>]

\* The page has no thumbnail element, or one for variant "10".
ThumbLists == {<<>>, <<Thumb(Id10, Str(CdnThumbSrc))>>}

Pages == {[jsonScript |-> j, thumbs |-> t] : j \in BOOLEAN, t \in ThumbLists}

NoProduct == Product(Undefined, Undefined, Undefined, Undefined)

\* File names of at most MaxNameLen atoms, for the URL helpers.
NameAtoms == {"a", "_", "small", "large"}

Prefixes ==
    { <<"/">>,
      <<"/", "/", "cdn.shopify.com", "/">>,
      <<"http", "s", "://", "cdn.shopify.com", "/">>,
      <<"http", "s", "://", "shop.example", "/">>,
      <<"http", "s", "://", "shop.example", "/", "cdn.shopify.com", "/">> }

HelperUrls ==
    {Null} \cup {Str(pre \o name \o <<".", "jpg">>) :
                    pre \in Prefixes, name \in SeqsUpTo(NameAtoms, MaxNameLen)}

---------------------------------------------------------------------------
(* The programs *)

Extractors == {"sitemap_crawler", "crawl_products"}

\* The crawl loop is not running.
CrawlIdle ==
    /\ step = "idle"
    /\ saveInterval = 0
    /\ previousRun = <<>>
    /\ outputFile = [collections |-> <<>>, products |-> <<>>]
    /\ result = [collections |-> <<>>, products |-> <<>>]
    /\ crawledProducts = {}
    /\ collectionLinks = <<>>
    /\ colIndex = 0
    /\ uniqueProductLinks = <<>>
    /\ prodIndex = 0
    /\ collectionProductCount = 0
    /\ deferred = {}
    /\ attempted = {}

\* The loop over pages is not running.
PagesIdle ==
    /\ pagesStep = "idle"
    /\ maxPagesArg = 0
    /\ pageNumbersText = Null
    /\ nextPages = 1
    /\ totalPages = 1
    /\ maxPages = 0
    /\ currentPage = 0
    /\ processedPages = <<>>
    /\ probeCalls = 0
    /\ probeEnd = "none"

\* No product query is running.
ApiIdle ==
    /\ apiStep = "idle"
    /\ limit = 0
    /\ storeProducts = 0
    /\ allProducts = <<>>
    /\ hasNextPage = TRUE
    /\ cursor = 0
    /\ first = 0

\* The data processor is not running.
RangesIdle ==
    /\ rangeStep = "idle"
    /\ rawData = <<>>
    /\ priceRanges = <<>>
    /\ statsRanges = <<>>

\* No call of safeNavigate is in progress.
NavIdle ==
    /\ navStep = "idle"
    /\ argvRetries = 0
    /\ navUrl = <<>>
    /\ attempt = 0
    /\ lastError = Undefined
    /\ gotoCalls = 0
    /\ failures = 0
    /\ response = Undefined
    /\ thrown = Undefined

\* getCollections is not running.
CollIdle ==
    /\ collStep = "idle"
    /\ shopCollections = 0
    /\ emptyEvery = 0
    /\ allCollections = <<>>
    /\ collHasNextPage = TRUE
    /\ collCursor = 0
    /\ collRequests = 0
    /\ nonEmptyCollections = Null

InitProduct(pj, sc, pg) ==
    /\ script = sc
    /\ pc = "extract"
    /\ productJson = pj
    /\ page = pg
    /\ images = <<>>
    /\ variants = <<>>
    /\ price = Undefined
    /\ productData = "none"
    /\ imageUrl = Null
    /\ prevUrl = Null
    /\ applied = 0
    /\ priceArg = Undefined
    /\ priceRes = Undefined
    /\ CrawlIdle
    /\ PagesIdle
    /\ ApiIdle
    /\ RangesIdle
    /\ NavIdle
    /\ CollIdle

InitHelpers(u, p, at) ==
    /\ script = "helpers"
    /\ pc = at
    /\ productJson = NoProduct
    /\ page = NoPage
    /\ images = <<>>
    /\ variants = <<>>
    /\ price = Undefined
    /\ productData = "none"
    /\ imageUrl = u
    /\ prevUrl = u
    /\ applied = 0
    /\ priceArg = p
    /\ priceRes = Undefined
    /\ CrawlIdle
    /\ PagesIdle
    /\ ApiIdle
    /\ RangesIdle
    /\ NavIdle
    /\ CollIdle

Init ==
    \/ \E pj \in ImageProducts :
          \/ InitProduct(pj, "sitemap_crawler", NoPage)
          \/ InitProduct(pj, "process_variants", NoPage)
          \/ \E pg \in Pages : InitProduct(pj, "crawl_products", pg)
    \/ \E pj \in PriceProducts, sc \in Extractors : InitProduct(pj, sc, NoPage)
    \/ \E u \in HelperUrls : InitHelpers(u, Undefined, "url")
    \/ \E p \in PriceInputs : InitHelpers(Null, p, "price")

helperVars == <<imageUrl, prevUrl, applied, priceArg, priceRes>>

inputVars == <<script, productJson, page>>

\* The extraction of crawlCollection and of crawlShopifyProducts from the
\* product JSON; a TypeError makes the catch return {error}.
Extract ==
    /\ script \in Extractors
    /\ pc = "extract"
    /\ IF ExtractThrows(productJson)
       THEN /\ productData' = "error"
            /\ pc' = "done"
            /\ UNCHANGED <<images, variants, price>>
       ELSE /\ images' = ImageList(productJson)
            /\ variants' = VariantList(productJson)
            /\ price' = ProductPrice(productJson)
            /\ pc' = IF script = "crawl_products" THEN "idmap" ELSE "done"
            /\ productData' = IF script = "crawl_products" THEN "none" ELSE "ok"
    /\ UNCHANGED <<inputVars, helperVars>>
    /\ UNCHANGED resolverFrame

\* crawlShopifyProducts: variant ID to image mapping from the page's JSON script
OverrideStep ==
    /\ script = "crawl_products"
    /\ pc = "idmap"
    /\ variants' = OverrideFromJsonScript(productJson, page, variants)
    /\ pc' = "thumbs"
    /\ UNCHANGED <<inputVars, helperVars, images, price, productData>>
    /\ UNCHANGED resolverFrame

\* crawlShopifyProducts: images of the page's thumbnail elements
ThumbsStep ==
    /\ script = "crawl_products"
    /\ pc = "thumbs"
    /\ variants' = ApplyThumbs(page, variants)
    /\ pc' = "distribute"
    /\ UNCHANGED <<inputVars, helperVars, images, price, productData>>
    /\ UNCHANGED resolverFrame

\* crawlShopifyProducts: index-based redistribution, then the return
RedistributeStep ==
    /\ script = "crawl_products"
    /\ pc = "distribute"
    /\ variants' = Redistribute(images, variants)
    /\ pc' = "done"
    /\ productData' = "ok"
    /\ UNCHANGED <<inputVars, helperVars, images, price>>
    /\ UNCHANGED resolverFrame

\* processShopifyProductJson: log, processVariantImages, write
ProcessFile ==
    /\ script = "process_variants"
    /\ pc = "extract"
    /\ IF ProcessThrows(productJson)
       THEN /\ productData' = "error"
            /\ UNCHANGED variants
       ELSE /\ productData' = "ok"
            /\ variants' = processVariantImages(productJson)
    /\ productJson' = AssignImages(productJson)
    /\ pc' = "done"
    /\ UNCHANGED <<script, page, helperVars, images, price>>
    /\ UNCHANGED resolverFrame

\* A call getHighResImage(imageUrl) on the result of the previous call.
CallGetHighResImage ==
    /\ script = "helpers"
    /\ pc = "url"
    /\ applied < MaxCalls
    /\ prevUrl' = imageUrl
    /\ imageUrl' = getHighResImage(imageUrl)
    /\ applied' = applied + 1
    /\ UNCHANGED <<inputVars, pc, images, variants, price, productData, priceArg, priceRes>>
    /\ UNCHANGED resolverFrame

\* A call normalizePrice(priceArg).
CallNormalizePrice ==
    /\ script = "helpers"
    /\ pc = "price"
    /\ priceRes' = normalizePrice(priceArg)
    /\ pc' = "done"
    /\ UNCHANGED <<inputVars, images, variants, price, productData, imageUrl, prevUrl, applied, priceArg>>
    /\ UNCHANGED resolverFrame

Next ==
    \/ Extract
    \/ OverrideStep
    \/ ThumbsStep
    \/ RedistributeStep
    \/ ProcessFile
    \/ CallGetHighResImage
    \/ CallNormalizePrice

Spec == Init /\ [][Next]_vars

---------------------------------------------------------------------------
(* What the specification calls the normalized form of a source *)

\* The host of an absolute URL.
HostOf(u) == IF StartsWith(u, <<"http", "s", "://">>) THEN u[4] ELSE u[3]

\* Resolved against the page origin when it has no scheme, and its size token
\* rewritten when the resolved host is the Shopify CDN.
SpecNormalized(u) ==
    LET a == IF HasScheme(u) THEN u ELSE ResolveUrl(u)
    IN  IF HostOf(a) = "cdn.shopify.com" THEN ReplaceSize(a) ELSE a

\* The input variants and images, [] when the JSON carries no array.
InVariants == IF IsArray(productJson.variants) THEN productJson.variants.val ELSE <<>>

InImages == IF IsArray(productJson.images) THEN productJson.images.val ELSE <<>>

\* The extraction has returned a product (at any of the steps that follow it).
Returned == pc # "extract" /\ productData # "error" /\ script # "helpers"

\* The program has emitted the product.
Emitted == pc = "done" /\ productData = "ok"

\* The images whose variant_ids hold the variant's ID in stringified form.
MatchingImages(variant) ==
    {k \in 1..Len(InImages) :
        /\ HasVariantIds(InImages[k])
        /\ (IsStr(variant.id) \/ IsNum(variant.id))
        /\ JsToString(variant.id) \in IdKeys(InImages[k].variant_ids.val)}

Greatest(S) == CHOOSE i \in S : \A j \in S : j <= i

\* The normalized form of an image entry's src; Undefined when it has none.
NormalizedSrc(img) ==
    IF IsStr(img) THEN Str(SpecNormalized(img.val))
    ELSE IF IsStr(img.src) THEN Str(SpecNormalized(img.src.val))
    ELSE Undefined

---------------------------------------------------------------------------
(* Claims *)

\* C1: for every variant whose featured image source is non-empty, the image
\* of that variant equals the normalized form of that source, at the return
\* of the extraction and after every later step of the scraping script,
\* whatever the image-to-variant-ID mapping and the image list contain.
C1_FeaturedImageKept ==
    (script \in Extractors /\ Returned) =>
        \A i \in 1..Len(variants) :
            HasFeaturedSrc(InVariants[i]) =>
                variants[i].image = Str(SpecNormalized(InVariants[i].featured_image.src.val))

\* C2: for every variant with no featured image source whose stringified ID
\* occurs in the variant_ids of one or more images, the emitted image is the
\* normalized URL of the last such image in input order.
C2_LastMatchingImage ==
    (script \in {"sitemap_crawler", "process_variants"} /\ Emitted) =>
        \A i \in 1..Len(variants) :
            (~HasFeaturedSrc(InVariants[i]) /\ MatchingImages(InVariants[i]) # {}) =>
                variants[i].image = NormalizedSrc(InImages[Greatest(MatchingImages(InVariants[i]))])

\* C3: for every variant with neither a featured image source nor a
\* variant-ID match, the emitted image is the normalized form of the first
\* entry of the input image list when that list is non-empty, and is null
\* when the list is empty.
C3_FirstImageOrNull ==
    (script \in {"sitemap_crawler", "process_variants"} /\ Emitted) =>
        \A i \in 1..Len(variants) :
            (~HasFeaturedSrc(InVariants[i]) /\ MatchingImages(InVariants[i]) = {}) =>
                variants[i].image =
                    IF Len(InImages) > 0 THEN NormalizedSrc(InImages[1]) ELSE Null

Malformed(variant) == ~HasFeaturedSrc(variant) /\ variant.id = Undefined

\* C5: resolving a product one of whose variants has no id and no featured
\* image raises no exception: the product is emitted, and that variant has
\* the first product image, or null when there are no images.
C5_MissingIdFallsThrough ==
    (script \in {"sitemap_crawler", "process_variants"} /\ pc = "done"
        /\ \E i \in 1..Len(InVariants) : Malformed(InVariants[i])) =>
        /\ productData = "ok"
        /\ \A i \in 1..Len(variants) :
               Malformed(InVariants[i]) =>
                   variants[i].image =
                       IF Len(InImages) > 0 THEN NormalizedSrc(InImages[1]) ELSE Null

\* C6: every non-null image of every emitted variant is an absolute URL.
C6_ImagesAbsolute ==
    Emitted =>
        \A i \in 1..Len(variants) :
            variants[i].image \notin {Null, Undefined} =>
                IsStr(variants[i].image) /\ HasScheme(variants[i].image.val)

\* C7: the size rewrite is applied only to URLs whose host is the Shopify
\* CDN: getHighResImage returns a URL on any other host unchanged, even when
\* its path holds a size token or the text cdn.shopify.com.
C7_OtherHostsUnchanged ==
    (script = "helpers" /\ pc = "url" /\ applied > 0 /\ IsStr(prevUrl)
        /\ HasScheme(prevUrl.val) /\ HostOf(prevUrl.val) # "cdn.shopify.com") =>
        imageUrl = prevUrl

\* C8: the high-resolution rewrite is idempotent on every Shopify CDN URL,
\* URLs with more than one size token included: rewriting the result of a
\* rewrite returns it unchanged.
C8_RewriteIdempotent ==
    (script = "helpers" /\ pc = "url" /\ applied >= 2 /\ IsStr(prevUrl)
        /\ HasScheme(prevUrl.val) /\ HostOf(prevUrl.val) = "cdn.shopify.com") =>
        imageUrl = prevUrl

\* images = [{src: "/a_small_.jpg", variantIds: ["9"]}], variants = [{id: "9"}, {id: "10"}]
ScenarioProduct ==
    Product(Arr(<<Image(Str(RelativeSrc), Arr(<<Id9>>))>>),
            Arr(<<Variant(Id9, Undefined, PlainPrice), Variant(Id10, Undefined, PlainPrice)>>),
            Undefined, PlainPrice)

ScenarioEmitted == script = "sitemap_crawler" /\ Emitted /\ productJson = ScenarioProduct

\* C9 as written: in the scenario, with page origin https://shop.example,
\* variant 9 and variant 10 both resolve to
\* "https://shop.example/a_2048x2048_.jpg".
C9_ScenarioRewritten ==
    ScenarioEmitted =>
        \A i \in 1..2 :
            variants[i].image =
                Str(Origin \o <<"/", "a", "_", HighResToken, "_", ".", "jpg">>)

\* C9 as amended: in the scenario variant 9 and variant 10 both resolve to
\* "https://shop.example/a_small_.jpg": the source is made absolute, and its
\* size token is kept because the host is not the Shopify CDN.
C9_ScenarioAbsoluteOnly ==
    ScenarioEmitted =>
        /\ Len(variants) = 2
        /\ \A i \in 1..2 : variants[i].image = Str(Origin \o RelativeSrc)

\* C9 witness: the scenario's product has been emitted by crawlCollection.
C9_Witness == ScenarioEmitted /\ variants[1].id = Id9 /\ variants[2].id = Id10

\* The threshold rule: above 10000 the hundredth part, otherwise unchanged.
PriceRule(p) == IF p.val > CentsThreshold * 100 THEN Num(p.val \div 100) ELSE p

\* The JSON field the product-level price is taken from.
ProductPriceSource ==
    IF productJson.price_min # Undefined THEN productJson.price_min ELSE productJson.price

\* C10: every numeric price follows the threshold rule, in normalizePrice,
\* in the product-level price and in each variant price: a value above 10000
\* is emitted divided by 100, any other value (10000 and 0 included) as is.
C10_ThresholdRule ==
    /\ (script = "helpers" /\ pc = "done" /\ IsNum(priceArg)) =>
           priceRes = PriceRule(priceArg)
    /\ (script \in Extractors /\ Emitted) =>
           /\ IsNum(ProductPriceSource) => price = PriceRule(ProductPriceSource)
           /\ \A i \in 1..Len(variants) :
                  IsNum(InVariants[i].price) =>
                      variants[i].price = PriceRule(InVariants[i].price)


\* An image entry that carries a variant-ID list but no string src.
Incomplete(img) == HasVariantIds(img) /\ ~IsStr(img.src)

\* C11: resolving a product one of whose image entries carries a variant-ID
\* list but no src (all variants having an id or a featured image) raises no
\* exception: the product is emitted and every variant of it has an image
\* that is a URL or null.
C11_IncompleteImageNoThrow ==
    (script \in {"sitemap_crawler", "crawl_products", "process_variants"} /\ pc = "done"
        /\ InVariants # <<>>
        /\ \A i \in 1..Len(InVariants) : ~Malformed(InVariants[i])
        /\ \E k \in 1..Len(InImages) : Incomplete(InImages[k])) =>
        /\ productData = "ok"
        /\ Len(variants) = Len(InVariants)
        /\ \A i \in 1..Len(variants) : IsStr(variants[i].image) \/ variants[i].image = Null


\* C12: resolution leaves its input unchanged: no step of any script changes
\* the product JSON it was given (its image and variant records included).
C12_InputUnchanged == [][productJson' = productJson]_vars


---------------------------------------------------------------------------
(* crawlShopifyProducts: the run over collections and products *)

MaxCollections == 3

MaxLinks == 2

\* Values of --save-interval.
SaveIntervals == {0, 1, 2}

AllPath == <<"/collections/", "all">>

FrontpagePath == <<"/collections/", "frontpage">>

\* `${baseUrl}collections/all`
AllCollection == AllPath

\* href of the collection anchors the collections page may hold.
CollectionUrls == {AllPath, FrontpagePath, <<"/collections/", "hats">>}

\* href of the anchors a collection page may hold; "/products/old" is a
\* handle the store redirects to "/products/a".
PageLinks ==
    { <<"/products/", "a">>, <<"/products/", "b">>, <<"/products/", "old">>,
      <<"/products/", "a", "?", "variant=1">>, <<"/pages/", "about">> }

\* window.location.href once the navigation to a link has succeeded.
LoadedUrl(url) == IF url = <<"/products/", "old">> THEN <<"/products/", "a">> ELSE url

RECURSIVE Unique(_)
\* [...new Set(list)], Array.from(new Map(list.map(item => [item.url, item])).values()):
\* the first occurrence of every element, in order.
Unique(list) ==
    IF list = <<>> THEN <<>>
    ELSE LET init == Unique(SubSeq(list, 1, Len(list) - 1))
             last == list[Len(list)]
         IN  IF \E i \in 1..Len(init) : init[i] = last THEN init ELSE Append(init, last)

\* .filter(link => link.href && link.href.includes('/products/'))
IsProductLink(url) == Includes(url, <<"/products/">>)

\* The lists uniqueProductLinks can be for the anchors of a page.
ProductLinkLists ==
    {Unique(SelectSeq(raw, IsProductLink)) : raw \in SeqsUpTo(PageLinks, MaxLinks)}

\* url.split('/products/')[1]?.split('?')[0]
HandleOf(url) ==
    IF \E i \in 1..Len(url) : url[i] = "/products/"
    THEN LET i == CHOOSE k \in 1..Len(url) : url[k] = "/products/" /\ \A j \in 1..(k - 1) : url[j] # "/products/"
             rest == SubSeq(url, i + 1, Len(url))
         IN  IF rest = <<>> \/ rest[1] = "?" \/ rest[1] = "/products/" THEN Str(<<>>)
             ELSE Str(<<rest[1]>>)
    ELSE Undefined

\* const handle = url.split('/products/')[1]?.split('?')[0] || ''
PageHandle(url) == Or(HandleOf(url), Str(<<>>))

\* The productData of a loaded product page, as far as the run reads it.
ProductData(url) == [url |-> url, handle |-> PageHandle(url)]

\* collectionLinks after "Add All collection if it's not already included"
WithAll(links) ==
    IF \E i \in 1..Len(links) : Includes(links[i], AllPath) THEN links
    ELSE Append(links, AllCollection)

\* result.collections = collectionLinks.map(...)
CollectionEntries(links) == [i \in 1..Len(links) |-> [url |-> links[i], productCount |-> 0]]

\* "Skip the all collection until the end if we have other collections"
SkipAll(links, i) == Includes(links[i], AllPath) /\ Len(links) > 1 /\ i # Len(links)

\* "Skipping Featured Products collection - will process others first"
SkipFrontpage(links, i) == Includes(links[i], FrontpagePath) /\ Len(links) > 1

\* A periodic save that is due one product after every multiple.
SaveDueOneLate(n) == saveInterval > 1 /\ n % saveInterval = 1

\* result.products.length % argv['save-interval'] === 0 (x % 0 is NaN)
SaveDue(n) == saveInterval # 0 /\ n % saveInterval = 0

\* result.collections[collectionIndex].productCount = collectionProductCount,
\* collectionIndex the first entry with the collection's url
SetProductCount(entries, url, n) ==
    IF \E i \in 1..Len(entries) : entries[i].url = url
    THEN LET i == CHOOSE k \in 1..Len(entries) :
                      entries[k].url = url /\ \A j \in 1..(k - 1) : entries[j].url # url
         IN  [entries EXCEPT ![i].productCount = n]
    ELSE entries

\* The extraction and the helpers are not running.
ResolverIdle ==
    /\ script = "crawler"
    /\ pc = "done"
    /\ productJson = NoProduct
    /\ page = NoPage
    /\ images = <<>>
    /\ variants = <<>>
    /\ price = Undefined
    /\ productData = "none"
    /\ imageUrl = Null
    /\ prevUrl = Null
    /\ applied = 0
    /\ priceArg = Undefined
    /\ priceRes = Undefined

\* Products of an earlier run that argv.output may hold.
PreviousRuns == {<<>>, <<ProductData(<<"/products/", "a">>)>>}

InitCrawl ==
    /\ ResolverIdle
    /\ PagesIdle
    /\ ApiIdle
    /\ RangesIdle
    /\ NavIdle
    /\ CollIdle
    /\ step = "start"
    /\ saveInterval \in SaveIntervals
    /\ previousRun \in PreviousRuns
    /\ outputFile = [collections |-> <<>>, products |-> previousRun]
    /\ result = [collections |-> <<>>, products |-> <<>>]
    /\ crawledProducts = {}
    /\ collectionLinks = <<>>
    /\ colIndex = 0
    /\ uniqueProductLinks = <<>>
    /\ prodIndex = 0
    /\ collectionProductCount = 0
    /\ deferred = {}
    /\ attempted = {}

\* STEP 1 and 2: result and crawledProducts are created empty, the
\* collections page is loaded and the list of collections is built.
LoadCollections ==
    /\ step = "start"
    /\ \E raw \in SeqsUpTo(CollectionUrls, MaxCollections) :
          /\ collectionLinks' = WithAll(Unique(raw))
          /\ result' = [collections |-> CollectionEntries(WithAll(Unique(raw))), products |-> <<>>]
    /\ colIndex' = 1
    /\ step' = "collections"
    /\ UNCHANGED <<saveInterval, previousRun, outputFile, crawledProducts, uniqueProductLinks,
                   prodIndex, collectionProductCount, deferred, attempted>>
    /\ UNCHANGED crawlFrame

\* safeNavigate to the collections page fails: "Failed to crawl collections".
LoadCollectionsFails ==
    /\ step = "start"
    /\ step' = "failed"
    /\ UNCHANGED <<saveInterval, previousRun, outputFile, result, crawledProducts,
                   collectionLinks, colIndex, uniqueProductLinks, prodIndex,
                   collectionProductCount, deferred, attempted>>
    /\ UNCHANGED crawlFrame

\* One iteration of the loop over collectionLinks, up to the product links of
\* the collection's page: the collection is skipped, or its page fails to
\* load, or the links of the page are collected.
StartCollection ==
    /\ step = "collections"
    /\ colIndex <= Len(collectionLinks)
    /\ IF SkipAll(collectionLinks, colIndex) \/ SkipFrontpage(collectionLinks, colIndex)
       THEN /\ deferred' = deferred \cup {collectionLinks[colIndex]}
            /\ colIndex' = colIndex + 1
            /\ UNCHANGED <<step, uniqueProductLinks, prodIndex, collectionProductCount, attempted>>
       ELSE /\ attempted' = attempted \cup {collectionLinks[colIndex]}
            /\ \/ /\ colIndex' = colIndex + 1
                  /\ UNCHANGED <<step, uniqueProductLinks, prodIndex, collectionProductCount>>
               \/ /\ uniqueProductLinks' \in ProductLinkLists
                  /\ prodIndex' = 1
                  /\ collectionProductCount' = 0
                  /\ step' = "products"
                  /\ UNCHANGED colIndex
            /\ UNCHANGED deferred
    /\ UNCHANGED <<saveInterval, previousRun, outputFile, result, crawledProducts, collectionLinks>>
    /\ UNCHANGED crawlFrame

\* One iteration of the loop over uniqueProductLinks: the product is skipped
\* as already crawled, or its page fails, or its data is added to the result
\* (and the result saved when the save interval is reached).
VisitProduct ==
    /\ step = "products"
    /\ prodIndex <= Len(uniqueProductLinks)
    /\ prodIndex' = prodIndex + 1
    /\ LET productUrl == uniqueProductLinks[prodIndex]
           productHandle == HandleOf(productUrl)
           data == ProductData(LoadedUrl(productUrl))
       IN  IF productHandle \in crawledProducts
           THEN UNCHANGED <<result, crawledProducts, collectionProductCount, outputFile>>
           ELSE \/ UNCHANGED <<result, crawledProducts, collectionProductCount, outputFile>>
                \/ /\ result' = [result EXCEPT !.products = Append(@, data)]
                   /\ crawledProducts' = crawledProducts \cup {data.handle}
                   /\ collectionProductCount' = collectionProductCount + 1
                   /\ outputFile' = IF SaveDue(Len(result.products) + 1) THEN result' ELSE outputFile
    /\ UNCHANGED <<step, saveInterval, previousRun, collectionLinks, colIndex,
                   uniqueProductLinks, deferred, attempted>>
    /\ UNCHANGED crawlFrame

\* The end of a collection: its product count is stored and the result saved.
FinishCollection ==
    /\ step = "products"
    /\ prodIndex > Len(uniqueProductLinks)
    /\ result' = [result EXCEPT !.collections =
                    SetProductCount(@, collectionLinks[colIndex], collectionProductCount)]
    /\ outputFile' = result'
    /\ colIndex' = colIndex + 1
    /\ step' = "collections"
    /\ UNCHANGED <<saveInterval, previousRun, crawledProducts, collectionLinks,
                   uniqueProductLinks, prodIndex, collectionProductCount, deferred, attempted>>
    /\ UNCHANGED crawlFrame

\* STEP 4: "CRAWLING COMPLETED" and the final save.
CompleteCrawl ==
    /\ step = "collections"
    /\ colIndex > Len(collectionLinks)
    /\ outputFile' = result
    /\ step' = "completed"
    /\ UNCHANGED <<saveInterval, previousRun, result, crawledProducts, collectionLinks, colIndex,
                   uniqueProductLinks, prodIndex, collectionProductCount, deferred, attempted>>
    /\ UNCHANGED crawlFrame

NextCrawl ==
    \/ LoadCollections
    \/ LoadCollectionsFails
    \/ StartCollection
    \/ VisitProduct
    \/ FinishCollection
    \/ CompleteCrawl

SpecCrawl == InitCrawl /\ [][NextCrawl]_vars


---------------------------------------------------------------------------
(* Claims on the run of crawlShopifyProducts *)

\* The handles of a list of products.
Handles(products) == {products[i].handle : i \in 1..Len(products)}

\* C13: a run that starts with an output file holding products of an earlier
\* run never crawls one of those products again, and when the run completes
\* they are all in the output file.
C13_ResumeKeepsEarlier ==
    /\ [][result'.products # result.products =>
            result'.products[Len(result'.products)].handle \notin Handles(previousRun)]_vars
    /\ [](step = "completed" => Handles(previousRun) \subseteq Handles(outputFile.products))

\* C14: at every point of a run no two entries of the accumulated product
\* list have the same handle.
C14_NoDuplicateHandles ==
    \A i, j \in 1..Len(result.products) :
        i # j => result.products[i].handle # result.products[j].handle

\* The number of accumulated products is a positive multiple of save-interval.
AtSaveInterval == saveInterval > 0 /\ Len(result.products) > 0
                  /\ Len(result.products) % saveInterval = 0

C19_DeferredCrawledLater == step = "completed" => deferred \subseteq attempted


---------------------------------------------------------------------------
(* crawlCollection: the pages of a collection *)

MaxPagesArg == 3

MaxPageNumber == 3

MaxPageNumbers == 2

MaxNextPages == 11

\* "Let's crawl up to 10 pages to find the last page"
PaginationCheckLimit == 10

Min(a, b) == IF a < b THEN a ELSE b

\* Math.max(...pageNumbers)
MaxOf(numbers) == CHOOSE n \in {numbers[i] : i \in 1..Len(numbers)} :
                      \A i \in 1..Len(numbers) : numbers[i] <= n

\* totalPages after the look at the pagination element: the greatest of its
\* numeric texts, 1 without element or without numeric text.
PagesFromNumbers(texts) ==
    IF texts # Null /\ Len(texts.val) > 0 THEN MaxOf(texts.val) ELSE 1

\* totalPages after following link rel="next" from page 2 on, at most up to
\* page 10; n is the number of pages the chain has.
PagesFromNextLinks(n) == IF n >= 2 THEN Min(n, PaginationCheckLimit) ELSE 1

\* "Get total pages in this collection"
DetectedPages(texts, n) ==
    IF PagesFromNumbers(texts) = 1 THEN PagesFromNextLinks(n) ELSE PagesFromNumbers(texts)

\* argv['max-pages'] > 0 ? Math.min(argv['max-pages'], totalPages) : totalPages
MaxPagesOf(arg, total) == IF arg > 0 THEN Min(arg, total) ELSE total

InitPages ==
    /\ ResolverIdle
    /\ CrawlIdle
    /\ ApiIdle
    /\ RangesIdle
    /\ NavIdle
    /\ CollIdle
    /\ pagesStep = "detect"
    /\ maxPagesArg \in 0..MaxPagesArg
    /\ pageNumbersText \in {Null} \cup {Arr(t) : t \in SeqsUpTo(0..MaxPageNumber, MaxPageNumbers)}
    /\ nextPages \in 1..MaxNextPages
    /\ totalPages = 1
    /\ maxPages = 0
    /\ currentPage = 0
    /\ processedPages = <<>>
    /\ probeCalls = 0
    /\ probeEnd = "none"

\* Page k of the collection carries a link rel="next".
HasNextLink(k) == k < nextPages

\* The probe looks at one page too many.
ProbeWithinLimitOneMore == currentPage <= PaginationCheckLimit + 1

\* while (currentPage <= 10)
ProbeWithinLimit == currentPage <= PaginationCheckLimit

\* The collection page is loaded and its pagination element is read. With
\* totalPages still 1 and a link rel="next" on the page the probe starts at
\* page 2; otherwise totalPages is settled and maxPages is determined.
DetectPages ==
    /\ pagesStep = "detect"
    /\ totalPages' = PagesFromNumbers(pageNumbersText)
    /\ IF totalPages' = 1 /\ HasNextLink(1)
          THEN /\ currentPage' = 2
               /\ pagesStep' = "probe"
               /\ UNCHANGED maxPages
          ELSE /\ maxPages' = MaxPagesOf(maxPagesArg, totalPages')
               /\ currentPage' = 1
               /\ pagesStep' = "pages"
    /\ UNCHANGED <<maxPagesArg, pageNumbersText, nextPages, processedPages, probeCalls, probeEnd>>
    /\ UNCHANGED pagesFrame

\* The probe navigates to the next page and finds a further link rel="next".
ProbeNextLink ==
    /\ pagesStep = "probe"
    /\ ProbeWithinLimit
    /\ HasNextLink(currentPage)
    /\ probeCalls' = probeCalls + 1
    /\ currentPage' = currentPage + 1
    /\ UNCHANGED <<pagesStep, maxPagesArg, pageNumbersText, nextPages, totalPages, maxPages,
                   processedPages, probeEnd>>
    /\ UNCHANGED pagesFrame

\* The probe navigates to the next page and finds no link: "we reached the end".
ProbeLastPage ==
    /\ pagesStep = "probe"
    /\ ProbeWithinLimit
    /\ ~HasNextLink(currentPage)
    /\ probeCalls' = probeCalls + 1
    /\ totalPages' = currentPage
    /\ probeEnd' = "no-next"
    /\ pagesStep' = "back"
    /\ UNCHANGED <<maxPagesArg, pageNumbersText, nextPages, maxPages, currentPage, processedPages>>
    /\ UNCHANGED pagesFrame

\* The navigation of the probe throws: "Error checking pagination".
ProbeFails ==
    /\ pagesStep = "probe"
    /\ ProbeWithinLimit
    /\ probeCalls' = probeCalls + 1
    /\ totalPages' = currentPage - 1
    /\ probeEnd' = "failed"
    /\ pagesStep' = "back"
    /\ UNCHANGED <<maxPagesArg, pageNumbersText, nextPages, maxPages, currentPage, processedPages>>
    /\ UNCHANGED pagesFrame

\* The loop of the probe ends at its limit: "Reached maximum pagination check limit".
ProbeLimit ==
    /\ pagesStep = "probe"
    /\ ~ProbeWithinLimit
    /\ totalPages' = PaginationCheckLimit
    /\ probeEnd' = "limit"
    /\ pagesStep' = "back"
    /\ UNCHANGED <<maxPagesArg, pageNumbersText, nextPages, maxPages, currentPage, processedPages,
                   probeCalls>>
    /\ UNCHANGED pagesFrame

\* "Go back to first page": one more navigation; when it throws the error is
\* logged by the enclosing catch. Either way maxPages is determined next.
ProbeGoBack ==
    /\ pagesStep = "back"
    /\ probeCalls' = probeCalls + 1
    /\ maxPages' = MaxPagesOf(maxPagesArg, totalPages)
    /\ currentPage' = 1
    /\ pagesStep' = "pages"
    /\ UNCHANGED <<maxPagesArg, pageNumbersText, nextPages, totalPages, processedPages, probeEnd>>
    /\ UNCHANGED pagesFrame

\* One iteration of the loop over pages: the products of the page are processed.
ProcessPage ==
    /\ pagesStep = "pages"
    /\ currentPage <= maxPages
    /\ processedPages' = Append(processedPages, currentPage)
    /\ currentPage' = currentPage + 1
    /\ UNCHANGED <<pagesStep, maxPagesArg, pageNumbersText, nextPages, totalPages, maxPages,
                   probeCalls, probeEnd>>
    /\ UNCHANGED pagesFrame

\* One iteration of the loop over pages in which the navigation to a page
\* after the first fails: "Skip to next page on error".
SkipPage ==
    /\ pagesStep = "pages"
    /\ currentPage <= maxPages
    /\ currentPage > 1
    /\ currentPage' = currentPage + 1
    /\ UNCHANGED <<pagesStep, maxPagesArg, pageNumbersText, nextPages, totalPages, maxPages,
                   processedPages, probeCalls, probeEnd>>
    /\ UNCHANGED pagesFrame

\* return collectionResult
ReturnCollection ==
    /\ pagesStep = "pages"
    /\ currentPage > maxPages
    /\ pagesStep' = "returned"
    /\ UNCHANGED <<maxPagesArg, pageNumbersText, nextPages, totalPages, maxPages, currentPage,
                   processedPages, probeCalls, probeEnd>>
    /\ UNCHANGED pagesFrame

NextPages ==
    \/ DetectPages
    \/ ProbeNextLink
    \/ ProbeLastPage
    \/ ProbeFails
    \/ ProbeLimit
    \/ ProbeGoBack
    \/ ProcessPage
    \/ SkipPage
    \/ ReturnCollection

SpecPages == InitPages /\ [][NextPages]_vars

\* The pages processed, as a set.
Processed == {processedPages[i] : i \in 1..Len(processedPages)}

\* C16: when crawlCollection returns, with max-pages = N > 0 at most N pages
\* have been processed, with max-pages = 0 every page from 1 to the detected
\* totalPages has been processed, and in both cases page 1 has been processed.
C16_PagesProcessed ==
    pagesStep = "returned" =>
        /\ maxPagesArg > 0 => Len(processedPages) <= maxPagesArg
        /\ maxPagesArg = 0 => Processed = 1..totalPages
        /\ 1 \in Processed


---------------------------------------------------------------------------
(* API crawler: getProductsByCollection and getAllProducts *)

MaxStoreProducts == 260

\* Values of --limit.
Limits == {0, 1, 2, 3, 100, 250, 255}

\* The greatest `first` the queries ask for.
MaxPageSize == 250

\* while (hasNextPage && allProducts.length < maxProducts), with
\* maxProducts = limit > 0 ? limit : Infinity
MoreWanted(lim, n) == lim <= 0 \/ n < lim

\* first: Math.min(250, maxProducts - allProducts.length)
FirstOf(lim, n) == IF lim > 0 THEN Min(MaxPageSize, lim - n) ELSE MaxPageSize

\* The edges the store returns for (first, after): the products that follow
\* the cursor, at most `first` of them.
Edges(store, after, k) == [i \in 1..Min(k, store - after) |-> after + i]

InitApi ==
    /\ ResolverIdle
    /\ CrawlIdle
    /\ PagesIdle
    /\ RangesIdle
    /\ NavIdle
    /\ CollIdle
    /\ apiStep = "loop"
    /\ limit \in Limits
    /\ storeProducts \in 0..MaxStoreProducts
    /\ allProducts = <<>>
    /\ hasNextPage = TRUE
    /\ cursor = 0
    /\ first = 0

\* One iteration of the while loop: a query that succeeds.
FetchProducts ==
    /\ apiStep = "loop"
    /\ hasNextPage /\ MoreWanted(limit, Len(allProducts))
    /\ first' = FirstOf(limit, Len(allProducts))
    /\ allProducts' = allProducts \o Edges(storeProducts, cursor, first')
    /\ hasNextPage' = (cursor + first' < storeProducts)
    /\ cursor' = Len(allProducts')
    /\ UNCHANGED <<apiStep, limit, storeProducts>>
    /\ UNCHANGED apiFrame

\* One iteration of the while loop: the query throws, or the collection is
\* not found; the loop is left.
FetchFails ==
    /\ apiStep = "loop"
    /\ hasNextPage /\ MoreWanted(limit, Len(allProducts))
    /\ apiStep' = "broken"
    /\ UNCHANGED <<limit, storeProducts, allProducts, hasNextPage, cursor, first>>
    /\ UNCHANGED apiFrame

\* return allProducts, the loop condition being false
ReturnProducts ==
    /\ apiStep = "loop"
    /\ ~(hasNextPage /\ MoreWanted(limit, Len(allProducts)))
    /\ apiStep' = "returned"
    /\ UNCHANGED <<limit, storeProducts, allProducts, hasNextPage, cursor, first>>
    /\ UNCHANGED apiFrame

NextApi == FetchProducts \/ FetchFails \/ ReturnProducts

SpecApi == InitApi /\ [][NextApi]_vars

\* C17: every request asks for at most min(N, 250) products (250 when N = 0),
\* and when the loop ends without a failed query every product of the store
\* has been fetched, also when the store holds more than N products.
C17_LimitIsPageSize ==
    /\ first <= (IF limit > 0 THEN Min(limit, MaxPageSize) ELSE MaxPageSize)
    /\ apiStep = "returned" => Len(allProducts) = storeProducts


---------------------------------------------------------------------------
(* Data processor: generateStats and generatePriceRangeData *)
(* A price of this program is Num(n) with n the amount in thousandths, so   *)
(* that 9.99 is Num(9990) and 9.995 is Num(9995).                           *)

MaxProducts == 2

\* The keys of priceRanges and of stats.priceStats.ranges, in insertion order.
RangeNames == <<"Under $10", "$10-$20", "$20-$50", "$50-$100", "Over $100">>

\* range: [min, max] of the five entries of priceRanges; the last max is Infinity.
RangeBounds ==
    << [min |-> 0, max |-> 9990, bounded |-> TRUE],
       [min |-> 10000, max |-> 19990, bounded |-> TRUE],
       [min |-> 20000, max |-> 49990, bounded |-> TRUE],
       [min |-> 50000, max |-> 99990, bounded |-> TRUE],
       [min |-> 100000, max |-> 0, bounded |-> FALSE] >>

\* The upper limits of the else-if chain of generateStats.
StatsLimits == <<10000, 20000, 50000, 100000>>

\* price >= min && price <= max
InRange(p, r) == p >= RangeBounds[r].min /\ (~RangeBounds[r].bounded \/ p <= RangeBounds[r].max)

\* The entry the loop over Object.entries(priceRanges) pushes the product to:
\* the first whose range holds the price, 0 when the loop ends without a push.
RangeOf(p) ==
    IF \E r \in 1..Len(RangeNames) : InRange(p, r)
    THEN CHOOSE r \in 1..Len(RangeNames) : InRange(p, r) /\ \A q \in 1..(r - 1) : ~InRange(p, q)
    ELSE 0

\* product.price === null || isNaN(product.price)
SkippedPrice(p) == ~IsNum(p)

\* The entry generateStats counts a price in.
StatsRangeOf(p) ==
    IF \E r \in 1..Len(StatsLimits) : p < StatsLimits[r]
    THEN CHOOSE r \in 1..Len(StatsLimits) : p < StatsLimits[r] /\ \A q \in 1..(r - 1) : ~(p < StatsLimits[q])
    ELSE Len(RangeNames)

\* product.price && !isNaN(product.price)
CountedPrice(p) == IsNum(p) /\ Truthy(p)

\* The products of list f(product) holds for, in order.
RECURSIVE HandlesWhere(_, _)
HandlesWhere(products, r) ==
    IF products = <<>> THEN <<>>
    ELSE LET product == Head(products)
         IN  (IF ~SkippedPrice(product.price) /\ RangeOf(product.price.val) = r
              THEN <<product.handle>> ELSE <<>>) \o HandlesWhere(Tail(products), r)

\* priceRanges after the loop over rawData.products
generatePriceRangeData(products) ==
    [r \in 1..Len(RangeNames) |-> HandlesWhere(products, r)]

\* stats.priceStats.ranges after the loop over the products
generateStats(products) ==
    [r \in 1..Len(RangeNames) |->
        Cardinality({i \in 1..Len(products) :
            CountedPrice(products[i].price) /\ StatsRangeOf(products[i].price.val) = r})]

\* Prices of the products of the input file.
RangePrices ==
    {Null, Undefined} \cup
    {Num(n) : n \in {0, 5000, 9990, 9995, 10000, 19990, 19995, 20000, 49990, 50000,
                     99990, 99999, 100000, 150000}}

\* rawData.products: not empty, the handles being the positions.
RawProducts ==
    {[i \in 1..Len(ps) |-> [handle |-> i, price |-> ps[i]]] :
        ps \in SeqsUpTo(RangePrices, MaxProducts) \ {<<>>}}

InitRanges ==
    /\ ResolverIdle
    /\ CrawlIdle
    /\ PagesIdle
    /\ ApiIdle
    /\ NavIdle
    /\ CollIdle
    /\ rangeStep = "stats"
    /\ rawData \in RawProducts
    /\ priceRanges = <<>>
    /\ statsRanges = <<>>

\* const stats = await generateStats(rawData), written to stats.json
GenerateStats ==
    /\ rangeStep = "stats"
    /\ statsRanges' = generateStats(rawData)
    /\ rangeStep' = "ranges"
    /\ UNCHANGED <<rawData, priceRanges>>
    /\ UNCHANGED rangeFrame

\* await generatePriceRangeData(rawData), written to price_ranges.json
GeneratePriceRangeData ==
    /\ rangeStep = "ranges"
    /\ priceRanges' = generatePriceRangeData(rawData)
    /\ rangeStep' = "written"
    /\ UNCHANGED <<rawData, statsRanges>>
    /\ UNCHANGED rangeFrame

NextRanges == GenerateStats \/ GeneratePriceRangeData

SpecRanges == InitRanges /\ [][NextRanges]_vars

\* The places of price_ranges.json a product is listed at.
Listings(handle) ==
    {<<r, k>> \in (1..Len(RangeNames)) \X (1..MaxProducts) :
        k <= Len(priceRanges[r]) /\ priceRanges[r][k] = handle}

\* C18: once price_ranges.json is written, every product with a numeric
\* price >= 0 is listed in exactly one of the five ranges, exactly once.
C18_ExactlyOneRange ==
    rangeStep = "written" =>
        \A i \in 1..Len(rawData) :
            (IsNum(rawData[i].price) /\ rawData[i].price.val >= 0) =>
                Cardinality(Listings(rawData[i].handle)) = 1


---------------------------------------------------------------------------
(* crawlShopifyProducts (first script): variants and images from the DOM *)

\* The variant the script creates when the page gives none.
DefaultVariant(p, imgs) ==
    Resolved(Undefined, p, IF Len(imgs) > 0 THEN Str(imgs[1]) ELSE Null)

\* "If no variants found in JSON, try to extract from DOM", then
\* "If still no variants, add a default variant"
DomVariants(vs, pg, p, imgs) ==
    LET fromForm == IF ~pg.variantsFromJson /\ pg.optionElements
                    THEN <<DefaultVariant(p, imgs)>> ELSE vs
    IN  IF Len(fromForm) = 0 THEN <<DefaultVariant(p, imgs)>> ELSE fromForm

\* isProductImage && !src.includes('icon') && !src.includes('logo'), the
\* keyword being looked for in the src
LooksLikeProductImage(src) ==
    /\ \E keyword \in {"product", "item", "main", "featured", "gallery", "zoom"} :
           Includes(src, <<keyword>>)
    /\ ~Includes(src, <<"icon">>)
    /\ ~Includes(src, <<"logo">>)

RECURSIVE PushProductImages(_, _)
\* allImages.forEach(img => ...) of the final fallback check
PushProductImages(imgs, srcs) ==
    IF srcs = <<>> THEN imgs
    ELSE LET src == Head(srcs)
             fullSrc == NormalizeUrl(src.val)
         IN  PushProductImages(
                 IF Truthy(src) /\ LooksLikeProductImage(src.val)
                    /\ ~\E k \in 1..Len(imgs) : imgs[k] = fullSrc
                 THEN Append(imgs, fullSrc) ELSE imgs,
                 Tail(srcs))

\* "Final fallback check for image URLs if we still don't have any"
FallbackImages(imgs, pg) == IF Len(imgs) = 0 THEN PushProductImages(imgs, pg.imgs) ELSE imgs

\* The placeholder with the logo only: nothing is pushed without a logo.
PlaceholderLogoOnly(imgs, pg) ==
    IF Len(imgs) = 0 /\ Truthy(pg.logo) THEN <<MakeAbsolute(pg.logo.val)>> ELSE imgs

\* "Final fallback: If still no product images, create a placeholder image"
Placeholder(imgs, pg) ==
    IF Len(imgs) = 0
    THEN IF Truthy(pg.logo) THEN <<MakeAbsolute(pg.logo.val)>> ELSE <<Origin \o NoImagePath>>
    ELSE imgs

\* "Ensure absolutely no variant has a null image - final thorough check"
EnsureImages(vs, imgs) ==
    LET defaultImage == IF Len(imgs) > 0 THEN Str(imgs[1]) ELSE Null
    IN  [i \in 1..Len(vs) |->
            IF ~Truthy(vs[i].image) THEN [vs[i] EXCEPT !.image = defaultImage] ELSE vs[i]]

\* "/product_small_.jpg", "/banner.jpg", "/product-logo.jpg"
ImgSrcs ==
    { Str(<<"/", "product", "_", "small", "_", ".", "jpg">>),
      Str(<<"/", "banner", ".", "jpg">>),
      Str(<<"/", "product", "-", "logo", ".", "jpg">>) }

\* src of the logo image, Null without one.
Logos == {Null, Str(<<"/", "logo", ".", "png">>)}

\* What the page holds besides the product JSON.
DomPages ==
    {[variantsFromJson |-> j, optionElements |-> o, imgs |-> i, logo |-> l] :
        j \in BOOLEAN, o \in BOOLEAN, i \in SeqsUpTo(ImgSrcs, MaxImages), l \in Logos}

\* The images the earlier parts of the extraction may have found.
FoundImages == SeqsUpTo({Origin \o RelativeSrc, CdnThumbSrc}, MaxImages)

\* The variants the variants map of the JSON may have built.
JsonVariants ==
    SeqsUpTo({Resolved(id, PlainPrice, image) :
                 id \in {Id9, Id10}, image \in {Null, Str(CdnThumbSrc)}}, MaxVariants)

InitDom ==
    /\ script = "dom_crawler"
    /\ pc = "variants"
    /\ productJson = NoProduct
    /\ page \in DomPages
    /\ images \in FoundImages
    /\ variants \in JsonVariants
    /\ ~page.variantsFromJson => variants = <<>>
    /\ price = PlainPrice
    /\ productData = "none"
    /\ imageUrl = Null
    /\ prevUrl = Null
    /\ applied = 0
    /\ priceArg = Undefined
    /\ priceRes = Undefined
    /\ CrawlIdle
    /\ PagesIdle
    /\ ApiIdle
    /\ RangesIdle
    /\ NavIdle
    /\ CollIdle

\* The variants from the product form, or the default variant.
DomVariantsStep ==
    /\ script = "dom_crawler"
    /\ pc = "variants"
    /\ variants' = DomVariants(variants, page, price, images)
    /\ pc' = "images"
    /\ UNCHANGED <<inputVars, helperVars, images, price, productData>>
    /\ UNCHANGED resolverFrame

\* The final fallbacks for the images, the final check of the variants'
\* images, and the return of the product.
DomImagesStep ==
    /\ script = "dom_crawler"
    /\ pc = "images"
    /\ images' = Placeholder(FallbackImages(images, page), page)
    /\ variants' = EnsureImages(variants, images')
    /\ pc' = "done"
    /\ productData' = "ok"
    /\ UNCHANGED <<inputVars, helperVars, price>>
    /\ UNCHANGED resolverFrame

NextDom == DomVariantsStep \/ DomImagesStep

SpecDom == InitDom /\ [][NextDom]_vars

\* C20: every product the DOM crawler emits has a non-empty image list and
\* at least one variant, and every variant of it has an image that is a
\* URL (never null); when the image list is the '/no-image-available'
\* placeholder, every variant has the placeholder or the image it had.
C20_NoNullVariantImage ==
    (script = "dom_crawler" /\ pc = "done") =>
        /\ Len(images) > 0
        /\ Len(variants) > 0
        /\ \A i \in 1..Len(variants) : IsStr(variants[i].image) /\ variants[i].image.val # <<>>
        /\ images = <<Origin \o NoImagePath>> =>
               \A i \in 1..Len(variants) :
                   variants[i].image \in {Str(Origin \o NoImagePath), Str(CdnThumbSrc)}

\* C20 witness: a product for which no image was found has been emitted with
\* the '/no-image-available' placeholder as the image of its variant.
C20_Witness ==
    /\ script = "dom_crawler"
    /\ pc = "done"
    /\ images = <<Origin \o NoImagePath>>
    /\ \E i \in 1..Len(variants) : variants[i].image = Str(Origin \o NoImagePath)


\* ---------------------------------------------------------------------------
\* safeNavigate: page.goto with retries (sitemap_crawler.js and the product
\* crawlers of part_002).
\* ---------------------------------------------------------------------------

\* Largest value of --retries that is drawn.
MaxRetries == 4

\* The urls a caller navigates to.
NavUrls == {Origin \o <<"/collections">>, Origin \o <<"/products/", "a">>}

\* The messages of the errors page.goto throws.
GotoErrors == {<<"Navigation timeout">>, <<"net::ERR_FAILED">>, <<"net::ERR_ABORTED">>}

\* An Error object with a message.
ErrorOf(name, message) == [tag |-> "error", name |-> name, message |-> message]

\* The response of the k-th call of page.goto.
ResponseOf(k) == [tag |-> "response", call |-> k]

\* const retries = options.retries || argv.retries; no caller passes options.
retries == Or(Undefined, Num(argvRetries)).val

\* The loop condition with one attempt too many.
CanAttemptOneMore == attempt <= retries + 1

\* attempt <= retries
CanAttempt == attempt <= retries

\* `Failed to navigate to ${url} after ${retries} attempts: ${lastError.message}`
FailedMessage(url, n, message) ==
    <<"Failed to navigate to ">> \o url \o <<" after ", ToString(n), " attempts: ">> \o message

\* Evaluating the argument of new Error(...): reading .message of undefined
\* raises a TypeError in place of the Error.
FailedError(url, n, err) ==
    IF err = Undefined
        THEN ErrorOf("TypeError", <<"Cannot read properties of undefined (reading 'message')">>)
        ELSE ErrorOf("Error", FailedMessage(url, n, err.message))

InitNav ==
    /\ ResolverIdle
    /\ CrawlIdle
    /\ PagesIdle
    /\ ApiIdle
    /\ RangesIdle
    /\ CollIdle
    /\ navStep = "loop"
    /\ argvRetries \in 0..MaxRetries
    /\ navUrl \in NavUrls
    /\ attempt = 1
    /\ lastError = Undefined
    /\ gotoCalls = 0
    /\ failures = 0
    /\ response = Undefined
    /\ thrown = Undefined

\* page.goto resolves: the response is returned.
GotoSucceeds ==
    /\ navStep = "loop"
    /\ CanAttempt
    /\ gotoCalls' = gotoCalls + 1
    /\ response' = ResponseOf(gotoCalls + 1)
    /\ navStep' = "returned"
    /\ UNCHANGED <<argvRetries, navUrl, attempt, lastError, failures, thrown>>
    /\ UNCHANGED navFrame

\* page.goto throws: the error is kept and the next attempt follows.
GotoFails ==
    /\ navStep = "loop"
    /\ CanAttempt
    /\ \E message \in GotoErrors : lastError' = ErrorOf("Error", message)
    /\ gotoCalls' = gotoCalls + 1
    /\ failures' = failures + 1
    /\ attempt' = attempt + 1
    /\ UNCHANGED <<navStep, argvRetries, navUrl, response, thrown>>
    /\ UNCHANGED navFrame

\* The loop has ended without a return.
ThrowFailed ==
    /\ navStep = "loop"
    /\ ~CanAttempt
    /\ thrown' = FailedError(navUrl, retries, lastError)
    /\ navStep' = "thrown"
    /\ UNCHANGED <<argvRetries, navUrl, attempt, lastError, gotoCalls, failures, response>>
    /\ UNCHANGED navFrame

NextNav == GotoSucceeds \/ GotoFails \/ ThrowFailed

SpecNav == InitNav /\ [][NextNav]_vars

\* C21: with retries = R >= 1, safeNavigate calls page.goto at most R times,
\* makes no further attempt after the first attempt that succeeds and returns
\* the response of that attempt, and throws only after exactly R failed
\* attempts in a row.
C21_RetriesBound ==
    /\ [](retries >= 1 =>
            /\ gotoCalls <= retries
            /\ navStep = "returned" =>
                    /\ response = ResponseOf(gotoCalls)
                    /\ failures = gotoCalls - 1
                    /\ thrown = Undefined
            /\ navStep = "thrown" =>
                    /\ failures = retries
                    /\ gotoCalls = retries
                    /\ response = Undefined)
    /\ [][navStep = "returned" /\ retries >= 1 => gotoCalls' = gotoCalls]_vars

\* The second of three attempts has succeeded after the first one failed.
C21_Witness ==
    /\ navStep = "returned"
    /\ retries = 3
    /\ failures = 1
    /\ gotoCalls = 2

\* C22: whenever safeNavigate does not return a response it throws an Error
\* with the message 'Failed to navigate to <url> after <retries> attempts:
\* <message of the last error>', for every value of retries, 0 included.
C22_FailedNavigationError ==
    navStep = "thrown" =>
        /\ thrown.name = "Error"
        /\ \E message \in GotoErrors : thrown.message = FailedMessage(navUrl, retries, message)

\* After at least one attempt the error thrown carries the message of the last error.
ThrowsFailedErrorAfterAttempt ==
    navStep = "thrown" /\ gotoCalls >= 1 =>
        thrown = ErrorOf("Error", FailedMessage(navUrl, retries, lastError.message))


\* ---------------------------------------------------------------------------
\* crawlCollection: the rel="next" probe
\* ---------------------------------------------------------------------------

\* crawlCollection goes on whenever it can: every await of it settles, the
\* navigations through the timeout of page.goto.
FairSpecPages == SpecPages /\ WF_vars(NextPages)

\* The probe has run and handed over to the loop over pages.
ProbeDone == pagesStep \in {"pages", "returned"} /\ probeEnd # "none"

\* When no navigation of the probe fails, totalPages is the length of the
\* chain of link rel="next", at most 10.
ProbeFollowsChain ==
    pagesStep \in {"pages", "returned"} /\ probeEnd # "failed" =>
        totalPages = DetectedPages(pageNumbersText, nextPages)

\* C23: the rel="next" probe of crawlCollection ends after at most 10 calls of
\* safeNavigate and leaves totalPages between 1 and 10, whether it ends
\* because no next link is found, because a navigation fails or because the
\* limit of 10 pages is reached.
C23_ProbeBounded ==
    /\ [](probeCalls <= PaginationCheckLimit)
    /\ [](probeEnd # "none" => totalPages \in 1..PaginationCheckLimit)
    /\ [](probeEnd = "no-next" => totalPages = nextPages)
    /\ [](probeEnd = "limit" => totalPages = PaginationCheckLimit /\ probeCalls >= 9)
    /\ (pagesStep = "probe" ~> ProbeDone)

\* The probe has ended at its limit and made its tenth navigation, back to the
\* first page.
C23_Witness ==
    /\ ProbeDone
    /\ probeEnd = "limit"
    /\ probeCalls = 10
    /\ totalPages = 10

\* The probe has ended with a failed navigation to page 2.
ProbeFailedAtSecondPage ==
    /\ ProbeDone
    /\ probeEnd = "failed"
    /\ totalPages = 1


\* ---------------------------------------------------------------------------
\* API crawler: getCollections
\* ---------------------------------------------------------------------------

\* Largest shop that is drawn, in collections.
MaxShopCollections == 252

\* Largest number of queries of one run that is followed.
MaxRequests == 3

\* first: 250
CollectionsPageSize == 250

\* productsCount > 0 of the collection at position i of the shop.
NonEmpty(i) == emptyEvery = 0 \/ i % emptyEvery # 0

\* The position after which collections(first: $first) starts, given the
\* variables {first, after: c}: the query declares $first only and passes no
\* after argument, so the field starts at the beginning whatever c is.
QueryAfter(c) == 0

\* The collections of the shop, in the order of the API.
ShopCollections == [i \in 1..shopCollections |-> i]

\* allCollections.filter(collection => collection.productsCount > 0)
FilterNonEmpty(collections) == SelectSeq(collections, NonEmpty)

\* The number of pages of CollectionsPageSize the shop has, 1 for no collection.
RequestsNeeded ==
    IF shopCollections = 0 THEN 1
    ELSE (shopCollections + CollectionsPageSize - 1) \div CollectionsPageSize

InitCollections ==
    /\ ResolverIdle
    /\ CrawlIdle
    /\ PagesIdle
    /\ ApiIdle
    /\ RangesIdle
    /\ NavIdle
    /\ collStep = "loop"
    /\ shopCollections \in 0..MaxShopCollections
    /\ emptyEvery \in {0, 2, 3}
    /\ allCollections = <<>>
    /\ collHasNextPage = TRUE
    /\ collCursor = 0
    /\ collRequests = 0
    /\ nonEmptyCollections = Null

\* One iteration of while (hasNextPage) in which executeQuery returns.
FetchCollections ==
    /\ collStep = "loop"
    /\ collHasNextPage
    /\ collRequests < MaxRequests
    /\ LET after == QueryAfter(collCursor)
           edges == Edges(shopCollections, after, CollectionsPageSize)
       IN  /\ allCollections' = allCollections \o edges
           /\ collHasNextPage' = (after + Len(edges) < shopCollections)
           /\ collCursor' = after + Len(edges)
    /\ collRequests' = collRequests + 1
    /\ UNCHANGED <<collStep, shopCollections, emptyEvery, nonEmptyCollections>>
    /\ UNCHANGED collFrame

\* One iteration in which executeQuery throws: the loop is left.
FetchCollectionsFails ==
    /\ collStep = "loop"
    /\ collHasNextPage
    /\ collRequests < MaxRequests
    /\ collRequests' = collRequests + 1
    /\ collStep' = "broken"
    /\ UNCHANGED <<shopCollections, emptyEvery, allCollections, collHasNextPage, collCursor,
                   nonEmptyCollections>>
    /\ UNCHANGED collFrame

\* "Filter out empty collections" and return.
ReturnCollections ==
    /\ \/ collStep = "loop" /\ ~collHasNextPage
       \/ collStep = "broken"
    /\ nonEmptyCollections' = Arr(FilterNonEmpty(allCollections))
    /\ collStep' = IF collStep = "broken" THEN "returned after error" ELSE "returned"
    /\ UNCHANGED <<shopCollections, emptyEvery, allCollections, collHasNextPage, collCursor,
                   collRequests>>
    /\ UNCHANGED collFrame

NextCollections == FetchCollections \/ FetchCollectionsFails \/ ReturnCollections

SpecCollections == InitCollections /\ [][NextCollections]_vars

\* C24: getCollections pages through the collections of the shop by cursor:
\* successive requests return successive pages, so that what has been fetched
\* is always the beginning of the shop's list up to the cursor; when every
\* request succeeds the loop ends after as many requests as the shop has
\* pages; and each non-empty collection is returned exactly once.
C24_CursorPagination ==
    /\ collStep \in {"loop", "returned"} =>
            /\ Len(allCollections) <= shopCollections
            /\ \A i \in 1..Len(allCollections) : allCollections[i] = ShopCollections[i]
            /\ collCursor = Len(allCollections)
            /\ collRequests <= RequestsNeeded
    /\ collStep = "returned" =>
            nonEmptyCollections = Arr(FilterNonEmpty(ShopCollections))

\* A shop of at most one page of collections is fetched with one request and
\* each of its non-empty collections is returned exactly once.
SinglePageShop ==
    shopCollections <= CollectionsPageSize =>
        /\ collStep \in {"loop", "returned"} => collRequests <= 1
        /\ collStep = "returned" =>
                nonEmptyCollections = Arr(FilterNonEmpty(ShopCollections))

\* The second request has returned the first page again.
FirstPageTwice ==
    /\ collStep = "loop"
    /\ collRequests = 2
    /\ shopCollections > CollectionsPageSize
    /\ collHasNextPage
    /\ allCollections = SubSeq(ShopCollections, 1, CollectionsPageSize)
                            \o SubSeq(ShopCollections, 1, CollectionsPageSize)

====
